---- MODULE Spec2Model ----
(***************************************************************************)
(* Model of muskit/svs/feats_extract/score_feats_extract.py:              *)
(*   ListsToTensor, FrameLabelAggregate.forward,                           *)
(*   FrameLabelAggregate.get_segments, FrameLabelAggregate.syllable_forward*)
(*                                                                         *)
(* Tensors are sequences.  Python indices are 0-based, TLA+ sequences are  *)
(* 1-based: At(x, i) reads the element the source writes x[i].             *)
(***************************************************************************)
EXTENDS Integers, Sequences, FiniteSets, TLC

VARIABLES
    phase,     \* "idle" | "segmented" | "extracted" | "reextracted" | "forwarded"
    args,      \* arguments of the last syllable_forward (or get_segments) call
    segs,      \* what get_segments did for each item of args
    ret,       \* what that syllable_forward call returned (or raised)
    re_ret,    \* what syllable_forward returned when run again on item 0 of ret
    fargs,     \* arguments of the last forward call (with the module's config)
    fret       \* what that forward call returned (or raised)

vars == <<phase, args, segs, ret, re_ret, fargs, fret>>

\* ---------------------------------------------------------------- bounds

\* Largest capacity (Nsamples) of a batch handed to syllable_forward.
MaxCap == 2

\* Largest Nsamples, Label_dim, Batch and win_length of a call of forward.
MaxN == 3

MaxDim == 2

MaxBatch == 2

MaxWin == 3

\* The codes the enumerated label, duration, score and tempo samples take
\* (the scenarios below bring their own).
Values == {0, 1}

\* ------------------------------------------------------- tensor helpers

Min(a, b) == IF a <= b THEN a ELSE b

Max(a, b) == IF a >= b THEN a ELSE b

\* x[i] of the source, i a 0-based index.
At(x, i) == x[i + 1]

\* seq[-1] of the source.
Last(seq) == seq[Len(seq)]

\* x[l:r+1]: the slice with its end taken as inclusive.
SliceInclusive(x, l, r) == SubSeq(x, l + 1, Min(r + 1, Len(x)))

\* x[l:r] of the source: a slice is clamped to the tensor's size.
Slice(x, l, r) == SubSeq(x, l + 1, Min(r, Len(x)))

Range(xs) == {xs[k] : k \in DOMAIN xs}

Count(xs, v) == Cardinality({k \in DOMAIN xs : xs[k] = v})

SetMin(S) == CHOOSE m \in S : \A n \in S : m <= n

\* Tensor.mode() on a non-empty 1-D tensor: the most frequent value, the
\* lowest one among equally frequent values.
Mode(xs) ==
    SetMin({v \in Range(xs) : \A w \in Range(xs) : Count(xs, w) <= Count(xs, v)})

\* [0] * n
Zeros(n) == [k \in 1..n |-> 0]

\* list(set(seq)); seq.sort()
RECURSIVE SortedList(_)
SortedList(S) ==
    IF S = {} THEN <<>>
    ELSE LET m == SetMin(S) IN <<m>> \o SortedList(S \ {m})

\* seq.sort() without the list(set(seq)) before it.
RECURSIVE SortKeepingDuplicates(_)
SortKeepingDuplicates(seq) ==
    IF seq = <<>> THEN <<>>
    ELSE LET m == SetMin(Range(seq))
             k == CHOOSE j \in DOMAIN seq : seq[j] = m
         IN <<m>> \o SortKeepingDuplicates(
                SubSeq(seq, 1, k - 1) \o SubSeq(seq, k + 1, Len(seq)))

SortedUnique(seq) == SortedList(Range(seq))

\* ------------------------------------------------------- ListsToTensor

RECURSIVE MaxLen(_)
MaxLen(xs) ==
    IF Len(xs) = 1 THEN Len(xs[1])
    ELSE Max(Len(xs[1]), MaxLen(Tail(xs)))

ListsToTensor(xs) ==
    LET max_len == MaxLen(xs)
    IN [k \in DOMAIN xs |-> xs[k] \o Zeros(max_len - Len(xs[k]))]

\* ------------------------------------------------------- get_segments

\* The loop  for i in range(n): if x[seq[-1]] != x[i]: seq.append(i)
\* from iteration i on.  Indexing a 1-D tensor at or past its size raises
\* IndexError, which ends the call.
RECURSIVE WalkFirstAsReference(_, _, _, _)
WalkFirstAsReference(x, n, i, seq) ==
    IF i >= n THEN [err |-> FALSE, seq |-> seq]
    ELSE IF i >= Len(x) THEN [err |-> TRUE, seq |-> seq]
    ELSE WalkFirstAsReference(x, n, i + 1,
            IF At(x, seq[1]) # At(x, i) THEN Append(seq, i) ELSE seq)

RECURSIVE WalkClamped(_, _, _, _)
WalkClamped(x, n, i, seq) ==
    IF i >= Min(n, Len(x)) THEN [err |-> FALSE, seq |-> seq]
    ELSE WalkClamped(x, n, i + 1,
            IF At(x, Last(seq)) # At(x, i) THEN Append(seq, i) ELSE seq)

RECURSIVE Walk(_, _, _, _)
Walk(x, n, i, seq) ==
    IF i >= n THEN [err |-> FALSE, seq |-> seq]
    ELSE IF Last(seq) >= Len(x) \/ i >= Len(x) THEN [err |-> TRUE, seq |-> seq]
    ELSE Walk(x, n, i + 1,
            IF At(x, Last(seq)) # At(x, i) THEN Append(seq, i) ELSE seq)

\* seq = [0]; the walk over durations; seq.append(durations_lengths.item())
DurationPassToCapacity(durations, durations_lengths) ==
    LET w == Walk(durations, durations_lengths, 0, <<0>>)
    IN [err |-> w.err, seq |-> Append(w.seq, Len(durations))]

DurationPass(durations, durations_lengths) ==
    LET w == Walk(durations, durations_lengths, 0, <<0>>)
    IN [err |-> w.err, seq |-> Append(w.seq, durations_lengths)]

\* seq.append(0); the walk over score; seq.append(score_lengths.item())
ScorePassWithoutRestart(seq, score, score_lengths) ==
    LET w == Walk(score, score_lengths, 0, seq)
    IN [err |-> w.err, seq |-> Append(w.seq, score_lengths)]

ScorePass(seq, score, score_lengths) ==
    LET w == Walk(score, score_lengths, 0, Append(seq, 0))
    IN [err |-> w.err, seq |-> Append(w.seq, score_lengths)]

\* seq.sort() alone.
BoundariesWithDuplicates(seq) == SortKeepingDuplicates(seq)

\* seq = list(set(seq)); seq.sort()
Boundaries(seq) == SortedUnique(seq)

\* A call that raised.  dur_seq and raw_seq are get_segments' list seq as it
\* stood after the duration pass and after the score pass.
Raised == [status |-> "IndexError", seq |-> <<>>, lengths |-> 0,
           seg_duartion |-> <<>>, seg_score |-> <<>>, seg_tempo |-> <<>>,
           dur_seq |-> <<>>, raw_seq |-> <<>>]

\* The loop over the segments: the mode of each stream over [seq[i], seq[i+1]).
\* mode() of an empty slice raises.
SegmentModes(seq, durations, score, tempo) ==
    LET lengths == Len(seq) - 1
        l(i) == seq[i]
        r(i) == seq[i + 1]
        empty(i) == \/ Slice(durations, l(i), r(i)) = <<>>
                    \/ Slice(score, l(i), r(i)) = <<>>
                    \/ Slice(tempo, l(i), r(i)) = <<>>
    IN IF \E i \in 1..lengths : empty(i) THEN Raised
       ELSE [status |-> "ok", seq |-> seq, lengths |-> lengths,
             dur_seq |-> <<>>, raw_seq |-> <<>>,
             seg_duartion |-> [i \in 1..lengths |-> Mode(Slice(durations, l(i), r(i)))],
             seg_score    |-> [i \in 1..lengths |-> Mode(Slice(score, l(i), r(i)))],
             seg_tempo    |-> [i \in 1..lengths |-> Mode(Slice(tempo, l(i), r(i)))]]

get_segments(durations, durations_lengths, score, score_lengths, tempo, tempo_lengths) ==
    LET p1 == DurationPass(durations, durations_lengths)
        p2 == ScorePass(p1.seq, score, score_lengths)
    IN IF p1.err THEN Raised
       ELSE IF p2.err THEN Raised
       ELSE LET m == SegmentModes(Boundaries(p2.seq), durations, score, tempo)
            IN IF m.status # "ok" THEN Raised
               ELSE [m EXCEPT !.dur_seq = p1.seq, !.raw_seq = p2.seq]

\* ------------------------------------------------------- syllable_forward

\* get_segments of item i (1-based) of a batch.
SegmentsOfItem(a, i) ==
    get_segments(a.durations[i], a.durations_lengths[i],
                 a.score[i], a.score_lengths[i],
                 a.tempo[i], a.tempo_lengths[i])

NoReturn == [status |-> "none",
             seg_durations |-> <<>>, seg_durations_lengths |-> <<>>,
             seg_score |-> <<>>, seg_score_lengths |-> <<>>,
             seg_tempo |-> <<>>, seg_tempo_lengths |-> <<>>]

syllable_forward(a) ==
    LET bs == Len(a.durations)
        seg == [i \in 1..bs |-> SegmentsOfItem(a, i)]
    IN IF \E i \in 1..bs : seg[i].status # "ok"
       THEN [NoReturn EXCEPT !.status = "IndexError"]
       ELSE [status |-> "ok",
             seg_durations |-> ListsToTensor([i \in 1..bs |-> seg[i].seg_duartion]),
             seg_durations_lengths |-> [i \in 1..bs |-> seg[i].lengths],
             seg_score |-> ListsToTensor([i \in 1..bs |-> seg[i].seg_score]),
             seg_score_lengths |-> [i \in 1..bs |-> seg[i].lengths],
             seg_tempo |-> ListsToTensor([i \in 1..bs |-> seg[i].seg_tempo]),
             seg_tempo_lengths |-> [i \in 1..bs |-> seg[i].lengths]]

\* ------------------------------------------------------- forward

\* Python's // on integers (floor division); hop_length >= 1.
FloorDiv(a, b) == a \div b

RECURSIVE SumSeq(_)
SumSeq(xs) == IF xs = <<>> THEN 0 ELSE Head(xs) + SumSeq(Tail(xs))

\* torch.nn.functional.pad(input, (0, 0, pad, pad), "constant", 0) on one
\* item x of shape (Nsamples, Label_dim).
ZeroPad(x, pad, label_dim) ==
    [k \in 1..pad |-> Zeros(label_dim)] \o x \o [k \in 1..pad |-> Zeros(label_dim)]

\* x[dst : dst + n] = x[src : src + n] on one item (the two ranges of the
\* source's copies never overlap).
CopyRange(x, dst, src, n) ==
    [k \in DOMAIN x |->
        IF dst < k /\ k <= dst + n THEN x[k - dst + src] ELSE x[k]]

\* Step1 on one item: pad, then the two copies, in the source's order.
CenterPad(x, pad, label_dim) ==
    LET max_length == Len(x) + 2 * pad
        p0 == ZeroPad(x, pad, label_dim)
        p1 == CopyRange(p0, 0, pad, pad)
    IN CopyRange(p1, max_length - pad, max_length - 2 * pad, pad)

\* Step2 on one item: as_strided, frames[f][w][d] = x[f * hop_length + w][d]
\* (f, w 0-based).
Frames(x, nframe, win_length, hop_length) ==
    [f \in 1..nframe |-> [w \in 1..win_length |-> x[(f - 1) * hop_length + w]]]

\* The reduction with the axes the other way round: each sample summed over
\* its label dimension, then the mode over the window's samples.
AggregateModeOverWindow(frame, label_dim) ==
    Mode([w \in DOMAIN frame |-> SumSeq(frame[w])])

\* Step3 on one frame: output.sum(dim=2) adds up the win_length axis of
\* (bs, nframe, win_length, label_dim), .mode(dim=-1) then reduces label_dim.
Aggregate(frame, label_dim) ==
    Mode([d \in 1..label_dim |-> SumSeq([w \in DOMAIN frame |-> frame[w][d]])])

\* make_pad_mask(olens, output, 1): TRUE where the frame index (0-based) is
\* at or past the item's length.
make_pad_mask(olens, nframe) ==
    [b \in DOMAIN olens |-> [f \in 1..nframe |-> (f - 1) >= olens[b]]]

\* output.masked_fill_(mask, 0.0)
masked_fill(output, mask) ==
    [b \in DOMAIN output |->
        [f \in DOMAIN output[b] |-> IF mask[b][f] THEN 0 ELSE output[b][f]]]

None == [given |-> FALSE, val |-> <<>>]

Some(v) == [given |-> TRUE, val |-> v]

FNoReturn == [status |-> "none", output |-> <<>>, olens |-> None]

\* Step4: olens from input_lengths.
OutputLengths(cfg, input_lengths) ==
    LET pad == cfg.win_length \div 2
    IN [b \in DOMAIN input_lengths |->
          FloorDiv((IF cfg.center THEN input_lengths[b] + 2 * pad
                    ELSE input_lengths[b]) - cfg.win_length,
                   cfg.hop_length) + 1]

\* forward().  nframe is assigned at the end of Step1's `if self.center:` block
\* and nowhere else, so without centering its read at Step2 raises
\* UnboundLocalError, which ends the call.
forward(cfg, input, input_lengths) ==
    LET bs == Len(input)
        label_dim == Len(input[1][1])
        pad == cfg.win_length \div 2
        \* Step1
        max_length == IF cfg.center THEN Len(input[1]) + 2 * pad ELSE Len(input[1])
        padded == [b \in 1..bs |->
                     IF cfg.center THEN CenterPad(input[b], pad, label_dim)
                     ELSE input[b]]
        nframe_bound == cfg.center
        nframe == FloorDiv(max_length - cfg.win_length, cfg.hop_length) + 1
        \* Step2, Step3
        output == [b \in 1..bs |->
                     [f \in 1..nframe |->
                        Aggregate(Frames(padded[b], nframe, cfg.win_length,
                                         cfg.hop_length)[f], label_dim)]]
    IN IF ~nframe_bound
       THEN [FNoReturn EXCEPT !.status = "UnboundLocalError"]
       \* Step4
       ELSE IF input_lengths.given
       THEN LET olens == OutputLengths(cfg, input_lengths.val)
            IN [status |-> "ok",
                output |-> masked_fill(output, make_pad_mask(olens, nframe)),
                olens |-> Some(olens)]
       ELSE [status |-> "ok", output |-> output, olens |-> None]

\* ------------------------------------------------------- inputs

Streams(L) == [1..L -> Values]

\* One item: three streams of one capacity L (syllable_forward asserts equal
\* shapes) and three reported lengths, each possibly one past the capacity.
Items(L) ==
    [d : Streams(L), dl : 0..(L + 1),
     s : Streams(L), sl : 0..(L + 1),
     t : Streams(L), tl : 0..(L + 1)]

\* The literal scenario of the segment-union test: durations [1,1,2,2,2] and
\* score [9,9,9,8,8] of length 5, with a constant tempo.
ScenarioItems ==
    {[d |-> <<1, 1, 2, 2, 2>>, dl |-> 5,
      s |-> <<9, 9, 9, 8, 8>>, sl |-> 5,
      t |-> <<4, 4, 4, 4, 4>>, tl |-> 5]}

\* A stream with single-sample blips: not every sample equals the value at
\* the boundary before it.
NoisyItems ==
    {[d |-> <<1, 2, 1, 1>>, dl |-> 4,
      s |-> <<9, 9, 8, 9>>, sl |-> 4,
      t |-> <<4, 4, 4, 4>>, tl |-> 4]}

\* The other item of a batch of two: an empty one, and one of L one-sample
\* segments, so that ListsToTensor pads the shorter row.
Companions(L) ==
    {[d |-> Zeros(L), dl |-> 0, s |-> Zeros(L), sl |-> 0, t |-> Zeros(L), tl |-> 0],
     [d |-> [k \in 1..L |-> k % 2], dl |-> L,
      s |-> Zeros(L), sl |-> L, t |-> Zeros(L), tl |-> L]}

BatchOf(its) ==
    [durations |-> [i \in DOMAIN its |-> its[i].d],
     durations_lengths |-> [i \in DOMAIN its |-> its[i].dl],
     score |-> [i \in DOMAIN its |-> its[i].s],
     score_lengths |-> [i \in DOMAIN its |-> its[i].sl],
     tempo |-> [i \in DOMAIN its |-> its[i].t],
     tempo_lengths |-> [i \in DOMAIN its |-> its[i].tl]]

\* The batches whose first item is it, of capacity L: it alone, and it
\* followed by a companion.
BatchesOf(it, L) ==
    {BatchOf(<<it>>)} \cup {BatchOf(<<it, c>>) : c \in Companions(L)}

NoArgs == BatchOf(<<>>)

\* forward's inputs: (Batch, Nsamples, Label_dim) with one or two items,
\* input_lengths None or one length per item, and the module's configuration
\* with win_length >= hop_length >= 1.
Configs ==
    {c \in [win_length : 1..MaxWin, hop_length : 1..MaxWin, center : BOOLEAN] :
        c.hop_length <= c.win_length}

Inputs(bs, n, label_dim) == [1..bs -> [1..n -> [1..label_dim -> Values]]]

InputLengths(bs, n) == {None} \cup {Some(v) : v \in [1..bs -> 0..n]}

\* ------------------------------------------------------- state machine

Init ==
    /\ phase = "idle"
    /\ args = NoArgs
    /\ segs = <<>>
    /\ ret = NoReturn
    /\ re_ret = NoReturn
    /\ fargs = [cfg |-> [win_length |-> 1, hop_length |-> 1, center |-> TRUE],
                input |-> <<>>, input_lengths |-> None]
    /\ fret = FNoReturn

\* A call of syllable_forward on a batch.
SyllableForward ==
    /\ phase = "idle"
    /\ \/ \E L \in 0..MaxCap : \E it \in Items(L) : \E a \in BatchesOf(it, L) :
             /\ args' = a
             /\ segs' = [i \in DOMAIN a.durations |-> SegmentsOfItem(a, i)]
             /\ ret' = syllable_forward(a)
       \/ \E it \in ScenarioItems \cup NoisyItems :
             /\ args' = BatchOf(<<it>>)
             /\ segs' = <<SegmentsOfItem(BatchOf(<<it>>), 1)>>
             /\ ret' = syllable_forward(BatchOf(<<it>>))
    /\ phase' = "extracted"
    /\ UNCHANGED <<re_ret, fargs, fret>>

\* The arguments of a second call: item 0 of what the first call returned, its
\* segment count as the valid length of all three streams.
ReArgs(r) ==
    [durations |-> <<r.seg_durations[1]>>,
     durations_lengths |-> <<r.seg_durations_lengths[1]>>,
     score |-> <<r.seg_score[1]>>,
     score_lengths |-> <<r.seg_score_lengths[1]>>,
     tempo |-> <<r.seg_tempo[1]>>,
     tempo_lengths |-> <<r.seg_tempo_lengths[1]>>]

\* syllable_forward run again on its own output.
ReExtract ==
    /\ phase = "extracted"
    /\ ret.status = "ok"
    /\ re_ret' = syllable_forward(ReArgs(ret))
    /\ phase' = "reextracted"
    /\ UNCHANGED <<args, segs, ret, fargs, fret>>

NextSegments == SyllableForward \/ ReExtract

SpecSegments == Init /\ [][NextSegments]_vars

\* The literal windows of the mode test, one item with Label_dim 1: with
\* win_length 5 and hop_length 2 frame 1 of [3,3,3,5,5] is the whole input, and
\* with win_length 4 and hop_length 2 frame 1 of [3,3,5,5] is.
ScenarioCalls ==
    {[cfg |-> [win_length |-> 5, hop_length |-> 2, center |-> TRUE],
      input |-> <<(<<(<<3>>), <<3>>, <<3>>, <<5>>, <<5>>>>)>>,
      input_lengths |-> None],
     [cfg |-> [win_length |-> 4, hop_length |-> 2, center |-> TRUE],
      input |-> <<(<<(<<3>>), <<3>>, <<5>>, <<5>>>>)>>,
      input_lengths |-> None]}

\* A call of get_segments on one item.
GetSegments ==
    /\ phase = "idle"
    /\ \E it \in (UNION {Items(L) : L \in 0..MaxCap}) \cup ScenarioItems \cup NoisyItems :
          /\ args' = BatchOf(<<it>>)
          /\ segs' = <<get_segments(it.d, it.dl, it.s, it.sl, it.t, it.tl)>>
    /\ phase' = "segmented"
    /\ UNCHANGED <<ret, re_ret, fargs, fret>>

NextItem == GetSegments

SpecItem == Init /\ [][NextItem]_vars

\* A call of forward.
Forward ==
    /\ phase = "idle"
    /\ \/ \E cfg \in Configs, bs \in 1..MaxBatch, n \in 1..MaxN, label_dim \in 1..MaxDim :
          \E input \in Inputs(bs, n, label_dim), input_lengths \in InputLengths(bs, n) :
             /\ fargs' = [cfg |-> cfg, input |-> input, input_lengths |-> input_lengths]
             /\ fret' = forward(cfg, input, input_lengths)
       \/ \E c \in ScenarioCalls :
             /\ fargs' = c
             /\ fret' = forward(c.cfg, c.input, c.input_lengths)
    /\ phase' = "forwarded"
    /\ UNCHANGED <<args, segs, ret, re_ret>>

NextForward == Forward

SpecForward == Init /\ [][NextForward]_vars

\* ------------------------------------------------------- properties: segments

\* Item i (1-based) of the call's batch.
ItemOf(a, i) ==
    [d |-> a.durations[i], dl |-> a.durations_lengths[i],
     s |-> a.score[i], sl |-> a.score_lengths[i],
     t |-> a.tempo[i], tl |-> a.tempo_lengths[i]]

Called == phase \in {"segmented", "extracted", "reextracted"}

ItemIds == IF Called THEN DOMAIN args.durations ELSE {}

\* The 0-based indices i in 1..n-1 with x[i] != x[i-1].
AdjacentChanges(x, n) == {i \in 1..(n - 1) : x[i + 1] # x[i]}

PassBoundaries(x, n) == {0} \cup AdjacentChanges(x, n) \cup {n}

StrictlyIncreasing(seq) == \A j \in 1..(Len(seq) - 1) : seq[j] < seq[j + 1]

\* v is the most frequent value of x over the 0-based range [l, r), and the
\* lowest of the most frequent ones.
IsModeOver(v, x, l, r) ==
    LET cnt(w) == Cardinality({k \in l..(r - 1) : x[k + 1] = w})
    IN /\ cnt(v) > 0
       /\ \A k \in l..(r - 1) :
             \/ cnt(x[k + 1]) < cnt(v)
             \/ cnt(x[k + 1]) = cnt(v) /\ v <= x[k + 1]

InCapacity(it) == it.dl <= Len(it.d) /\ it.sl <= Len(it.s)

\* C5: for an item whose durations_lengths and score_lengths are within
\* capacity, get_segments' boundary list is the ascending, duplicate-free list
\* of {0, changes of durations below durations_lengths, durations_lengths}
\* united with {0, changes of score below score_lengths, score_lengths}; the
\* segment count is len(boundaries) - 1 and row i holds the modes of durations,
\* score and tempo over [boundary[i], boundary[i+1]).  Durations [1,1,2,2,2]
\* with score [9,9,9,8,8] give boundaries 0,2,3,5 and the rows (1,9), (2,9),
\* (2,8).
C5_SegmentUnion ==
    \A i \in ItemIds :
        LET it == ItemOf(args, i)
            g == segs[i]
        IN InCapacity(it) =>
             /\ g.status = "ok"
             /\ StrictlyIncreasing(g.seq)
             /\ Range(g.seq) = PassBoundaries(it.d, it.dl) \cup PassBoundaries(it.s, it.sl)
             /\ g.lengths = Len(g.seq) - 1
             /\ Len(g.seg_duartion) = g.lengths
             /\ Len(g.seg_score) = g.lengths
             /\ Len(g.seg_tempo) = g.lengths
             /\ \A j \in 1..g.lengths :
                   /\ IsModeOver(g.seg_duartion[j], it.d, g.seq[j], g.seq[j + 1])
                   /\ IsModeOver(g.seg_score[j], it.s, g.seq[j], g.seq[j + 1])
                   /\ IsModeOver(g.seg_tempo[j], it.t, g.seq[j], g.seq[j + 1])
             /\ (it.d = <<1, 1, 2, 2, 2>> /\ it.s = <<9, 9, 9, 8, 8>>
                 /\ it.dl = 5 /\ it.sl = 5) =>
                   /\ g.seq = <<0, 2, 3, 5>>
                   /\ g.seg_duartion = <<1, 2, 2>>
                   /\ g.seg_score = <<9, 9, 8>>

\* The literal scenario was extracted into three segments.
C5_Witness ==
    /\ phase = "extracted"
    /\ args.durations = <<(<<1, 1, 2, 2, 2>>)>>
    /\ args.score = <<(<<9, 9, 9, 8, 8>>)>>
    /\ segs[1].seq = <<0, 2, 3, 5>>
    /\ ret.status = "ok"
    /\ ret.seg_durations_lengths = <<3>>

EmptyOutput(g) ==
    /\ g.status = "ok"
    /\ g.lengths = 0
    /\ g.seg_duartion = <<>> /\ g.seg_score = <<>> /\ g.seg_tempo = <<>>

\* C6 as claimed: an item with ANY of its three lengths 0 comes out as an empty
\* segment list of reported length 0, without an indexing error.
C6_AnyZeroLengthIsEmpty ==
    \A i \in ItemIds :
        LET it == ItemOf(args, i)
        IN (it.dl = 0 \/ it.sl = 0 \/ it.tl = 0) => EmptyOutput(segs[i])

\* C6 as amended: an item comes out as an empty segment list exactly when its
\* durations_lengths and score_lengths are both 0, whatever tempo_lengths is
\* (so also when all three are 0); no indexing error occurs then, and when the
\* call returns, the three reported lengths of the item are 0 and its rows
\* hold nothing but ListsToTensor's zero padding.
C6_BothZeroLengthsIsEmpty ==
    \A i \in ItemIds :
        LET it == ItemOf(args, i)
        IN /\ (it.dl = 0 /\ it.sl = 0) =>
                /\ EmptyOutput(segs[i])
                /\ ret.status = "ok" =>
                     /\ ret.seg_durations_lengths[i] = 0
                     /\ ret.seg_score_lengths[i] = 0
                     /\ ret.seg_tempo_lengths[i] = 0
                     /\ Range(ret.seg_durations[i]) \subseteq {0}
                     /\ Range(ret.seg_score[i]) \subseteq {0}
                     /\ Range(ret.seg_tempo[i]) \subseteq {0}
           /\ EmptyOutput(segs[i]) => (it.dl = 0 /\ it.sl = 0)

\* An empty item (tempo_lengths not 0) batched with an item of two segments:
\* its rows are two zeros of padding.
C6_Witness ==
    /\ phase = "extracted"
    /\ Len(args.durations) = 2
    /\ args.durations_lengths[1] = 0 /\ args.score_lengths[1] = 0
    /\ args.tempo_lengths[1] = 2
    /\ ret.status = "ok"
    /\ ret.seg_durations_lengths = <<0, 2>>
    /\ ret.seg_tempo[1] = <<0, 0>>

\* Item 0 of the first call came out again as it went in.
SameAgain ==
    LET K == ret.seg_durations_lengths[1]
    IN /\ re_ret.status = "ok"
       /\ re_ret.seg_durations_lengths[1] = K
       /\ re_ret.seg_score_lengths[1] = K
       /\ re_ret.seg_tempo_lengths[1] = K
       /\ SubSeq(re_ret.seg_durations[1], 1, K) = SubSeq(ret.seg_durations[1], 1, K)
       /\ SubSeq(re_ret.seg_score[1], 1, K) = SubSeq(ret.seg_score[1], 1, K)
       /\ SubSeq(re_ret.seg_tempo[1], 1, K) = SubSeq(ret.seg_tempo[1], 1, K)

\* C7 as claimed: whatever the three lengths, extraction run again on its own
\* output, the segment count K as the length of all three streams, yields K
\* segments with the same representative values.
C7_Idempotent ==
    phase = "reextracted" => SameAgain

\* C7 as amended: the same, for an item whose durations_lengths and
\* score_lengths are equal (tempo_lengths may differ from them).
C7_IdempotentOnEqualLengths ==
    (phase = "reextracted" /\ args.durations_lengths[1] = args.score_lengths[1])
        => SameAgain

\* Two segments, tempo_lengths different from the other two lengths, padded in
\* a batch, and extracted again.
C7_Witness ==
    /\ phase = "reextracted"
    /\ args.durations_lengths[1] = 2 /\ args.score_lengths[1] = 2
    /\ args.tempo_lengths[1] = 1
    /\ ret.seg_durations_lengths[1] = 2
    /\ re_ret.seg_durations_lengths[1] = 2
    /\ re_ret.seg_durations[1] = ret.seg_durations[1]

\* C8 as claimed: a reported length above the capacity, be it
\* durations_lengths, score_lengths or tempo_lengths, makes the extraction
\* raise a bounds error and return nothing.
C8_AnyOversizeLengthRaises ==
    \A i \in ItemIds :
        LET it == ItemOf(args, i)
        IN (it.dl > Len(it.d) \/ it.sl > Len(it.s) \/ it.tl > Len(it.t)) =>
              /\ segs[i].status = "IndexError"
              /\ ret.status = "IndexError"

\* C8 as amended: durations_lengths or score_lengths above the capacity makes
\* the extraction raise a bounds error and return nothing; tempo_lengths is
\* never examined, so an item whose other two lengths are within capacity is
\* extracted whatever its tempo_lengths.
C8_OversizeDurationOrScoreRaises ==
    \A i \in ItemIds :
        LET it == ItemOf(args, i)
        IN /\ (it.dl > Len(it.d) \/ it.sl > Len(it.s)) =>
                /\ segs[i].status = "IndexError"
                /\ ret.status = "IndexError"
                /\ ret.seg_durations = <<>> /\ ret.seg_durations_lengths = <<>>
           /\ InCapacity(it) => segs[i].status = "ok"

\* score_lengths alone is one past the capacity, and the call raised.
C8_Witness ==
    /\ phase = "extracted"
    /\ Len(args.score[1]) = 2
    /\ args.durations_lengths[1] = 2
    /\ args.score_lengths[1] = 3
    /\ args.tempo_lengths[1] = 2
    /\ ret.status = "IndexError"

\* The streams of capacity L that agree with x below index n.
SamePrefix(x, n) ==
    {y \in [1..Len(x) -> Values \cup Range(x)] :
        \A k \in 1..Min(n, Len(x)) : y[k] = x[k]}

\* What get_segments hands back for an item.
Outcome(g) == <<g.status, g.lengths, g.seg_duartion, g.seg_score, g.seg_tempo>>

\* Every item that agrees with it below each stream's own length is extracted
\* as it is.
PaddingIgnored(it, g) ==
    \A d2 \in SamePrefix(it.d, it.dl), s2 \in SamePrefix(it.s, it.sl),
       t2 \in SamePrefix(it.t, it.tl) :
        Outcome(get_segments(d2, it.dl, s2, it.sl, t2, it.tl)) = Outcome(g)

\* C9 as claimed: whatever the three lengths, samples at or past a stream's own
\* valid length do not influence what get_segments returns.
C9_PaddingIgnored ==
    phase \in {"segmented", "extracted"} =>
        \A i \in ItemIds : PaddingIgnored(ItemOf(args, i), segs[i])

\* C9 as amended: that holds for an item with durations_lengths equal to
\* score_lengths and tempo_lengths not below them.
C9_PaddingIgnoredOnAlignedLengths ==
    phase \in {"segmented", "extracted"} =>
        \A i \in ItemIds :
            LET it == ItemOf(args, i)
            IN (it.dl = it.sl /\ it.sl <= it.tl) => PaddingIgnored(it, segs[i])

\* One valid sample and one sample of non-zero padding in each stream.
C9_Witness ==
    /\ phase = "segmented"
    /\ args.durations = <<(<<0, 1>>)>>
    /\ args.score = <<(<<0, 1>>)>>
    /\ args.tempo = <<(<<0, 1>>)>>
    /\ args.durations_lengths = <<1>>
    /\ args.score_lengths = <<1>>
    /\ args.tempo_lengths = <<1>>
    /\ segs[1].seq = <<0, 1>>

\* The indices the score pass appended to seq: all of raw_seq after dur_seq.
ScoreRecorded(g) == Range(SubSeq(g.raw_seq, Len(g.dur_seq) + 1, Len(g.raw_seq)))

\* x is constant between each two consecutive indices of the set B.
ConstantRuns(x, B) ==
    \A l \in B, r \in B :
        (l < r /\ ~(\E m \in B : l < m /\ m < r)) =>
            \A k \in l..(r - 1) : x[k + 1] = x[l + 1]

\* C10: each pass of get_segments, which compares a sample with the one at the
\* most recently recorded index, records 0, the indices i in 1..n-1 with
\* x[i] != x[i-1], and n; so the stream is constant between two consecutive
\* boundaries of its own pass, whatever the input.
C10_WalkIsAdjacentDifference ==
    \A i \in ItemIds :
        LET it == ItemOf(args, i)
            g == segs[i]
        IN InCapacity(it) =>
             /\ Range(g.dur_seq) = PassBoundaries(it.d, it.dl)
             /\ ScoreRecorded(g) = PassBoundaries(it.s, it.sl)
             /\ ConstantRuns(it.d, Range(g.dur_seq))
             /\ ConstantRuns(it.s, ScoreRecorded(g))

\* The stream with blips was walked: a boundary at every change.
C10_Witness ==
    /\ phase = "extracted"
    /\ args.durations = <<(<<1, 2, 1, 1>>)>>
    /\ args.durations_lengths = <<4>>
    /\ segs[1].dur_seq = <<0, 1, 2, 4>>
    /\ ScoreRecorded(segs[1]) = {0, 2, 3, 4}

\* ------------------------------------------------------- properties: forward

Nsamples == Len(fargs.input[1])

\* The length framing works on: Nsamples, plus the padding when centering.
PaddedLength ==
    IF fargs.cfg.center THEN Nsamples + 2 * (fargs.cfg.win_length \div 2)
    ELSE Nsamples

ExpectedFrames ==
    (PaddedLength - fargs.cfg.win_length) \div fargs.cfg.hop_length + 1

\* The buffer framing reads for item b.
PaddedInput(b) ==
    IF fargs.cfg.center
    THEN CenterPad(fargs.input[b], fargs.cfg.win_length \div 2, Len(fargs.input[b][1]))
    ELSE fargs.input[b]

\* Frame f (1-based) of item b is left alone by Step4's mask.
Unmasked(b, f) ==
    fargs.input_lengths.given => (f - 1) < fret.olens.val[b]

\* C1: with center true and with center false, for win_length >= hop_length >= 1
\* and win_length within the (padded) length, forward returns
\* ((N + 2*(win_length//2) if center else N) - win_length) // hop_length + 1
\* frames for every item.
C1_FrameCount ==
    (phase = "forwarded" /\ fargs.cfg.win_length <= PaddedLength) =>
        /\ fret.status = "ok"
        /\ \A b \in DOMAIN fargs.input : Len(fret.output[b]) = ExpectedFrames

\* C2: every frame forward returns (and does not mask) is the mode, over the
\* window's samples, lowest value on a tie, of each sample's sum over its label
\* dimension.
C2_ModeOverWindow ==
    (phase = "forwarded" /\ fret.status = "ok") =>
        \A b \in DOMAIN fret.output : \A f \in DOMAIN fret.output[b] :
            Unmasked(b, f) =>
                fret.output[b][f] =
                    AggregateModeOverWindow(
                        Frames(PaddedInput(b), Len(fret.output[b]),
                               fargs.cfg.win_length, fargs.cfg.hop_length)[f],
                        Len(fargs.input[b][1]))

\* C3: with input_lengths given, forward returns for every item the length
\* (input_lengths[i] + (2*(win_length//2) if center else 0) - win_length)
\* // hop_length + 1 and zero in every frame at or past it; with input_lengths
\* omitted it returns None for the lengths.
C3_LengthsAndMask ==
    phase = "forwarded" =>
        /\ fret.status = "ok"
        /\ fret.olens.given = fargs.input_lengths.given
        /\ fargs.input_lengths.given =>
              \A b \in DOMAIN fargs.input :
                 /\ fret.olens.val[b] =
                       (fargs.input_lengths.val[b]
                        + (IF fargs.cfg.center THEN 2 * (fargs.cfg.win_length \div 2) ELSE 0)
                        - fargs.cfg.win_length) \div fargs.cfg.hop_length + 1
                 /\ \A f \in DOMAIN fret.output[b] :
                       (f - 1) >= fret.olens.val[b] => fret.output[b][f] = 0

\* The inputs of the call's shape that agree with it on the first
\* input_lengths[b] samples of every item b.
SameValidSamples ==
    {x \in Inputs(Len(fargs.input), Nsamples, Len(fargs.input[1][1])) :
        \A b \in DOMAIN x :
            \A n \in 1..Min(fargs.input_lengths.val[b], Nsamples) :
                x[b][n] = fargs.input[b][n]}

\* C4: samples at or past an item's input_lengths do not influence what
\* forward returns: not the frames below output_lengths, not the masked ones.
C4_PaddingIgnored ==
    (phase = "forwarded" /\ fargs.input_lengths.given) =>
        \A x \in SameValidSamples :
            forward(fargs.cfg, x, fargs.input_lengths) = fret

====
